---------------------------- MODULE Spec2Model ----------------------------
(***************************************************************************)
(* System endpoints of the Tasking Manager backend                         *)
(* (server/api/system/general.py): SystemDocsAPI, SystemHeartbeatAPI,      *)
(* SystemLanguagesAPI and SystemContactAdminRestAPI, served concurrently   *)
(* by the web framework.  The settings service, the SMTP service, the      *)
(* authentication decorators and the swagger generator are collaborators.  *)
(***************************************************************************)
EXTENDS Integers, Sequences, FiniteSets, TLC

(* Number of requests the server receives in one behaviour; they may all   *)
(* be in flight at once.                                                   *)
NumRequests == 2

Requests == 1..NumRequests

(* Identifiers of the users that own a valid session token.                *)
Users == {101, 102}

Collaborators == {"settings", "mail", "auth"}

----------------------------------------------------------------------------
VARIABLES
    request,                   \* the request each slot carries
    pc,                        \* where each request's handling stands
    languages,                 \* SystemLanguagesAPI.get: its local `languages`
    response,                  \* the response returned for each request
    log,                       \* entries each request wrote to current_app.logger
    calls,                     \* collaborators each request invoked, in order
    sent,                      \* messages each request handed to SMTPService
    raised,                    \* texts of the exceptions raised while handling
    verdict,                   \* what the session check said of each request
    tm_authenticated_user_id,  \* tm.authenticated_user_id, one per process
    settings,                  \* the snapshot SettingsService holds
    down                       \* collaborators that raise when invoked

vars == <<request, pc, languages, response, log, calls, sent, raised, verdict,
          tm_authenticated_user_id, settings, down>>

env == <<tm_authenticated_user_id, settings, down>>

----------------------------------------------------------------------------
(* Python values that reach str.format()                                   *)

PyNone == [t |-> "NoneType"]
PyStr(s) == [t |-> "str", v |-> s]
PyInt(i) == [t |-> "int", v |-> i]

(* str(x), as format() applies it to a "{}" field.                         *)
Str(x) ==
    CASE x.t = "NoneType" -> "None"
      [] x.t = "int" -> ToString(x.v)
      [] x.t = "str" -> x.v

(* A JSON object is a function from its keys to its (string) values.       *)
EmptyDict == [k \in {} |-> ""]

(* data.get(key, ""): a missing key reads as the empty string.             *)
DictGetOrEmpty(d, k) == IF k \in DOMAIN d THEN PyStr(d[k]) ELSE PyStr("")

(* dict.get(key): the value, or None when the key is missing.              *)
DictGet(d, k) == IF k \in DOMAIN d THEN PyStr(d[k]) ELSE PyNone

(* d[key] = value                                                          *)
DictSet(d, k, val) == [x \in DOMAIN d \cup {k} |-> IF x = k THEN val ELSE d[x]]

(* A text is the sequence of its pieces; a piece is contained in it when   *)
(* it is one of them.                                                      *)
Contains(text, piece) == \E i \in 1..Len(text) : text[i] = piece

----------------------------------------------------------------------------
(* Requests                                                                *)

(* Bodies a client can post to contact-admin.                              *)
Bodies ==
    { [shape |-> "absent", fields |-> EmptyDict],
      [shape |-> "malformed", fields |-> EmptyDict],
      [shape |-> "array", fields |-> EmptyDict],
      [shape |-> "object", fields |-> [name |-> "Alice", email |-> "a@x.com"]],
      [shape |-> "object",
       fields |-> [name |-> "Alice", email |-> "a@x.com", content |-> "Hi"]] }

(* What the Authorization header resolves to: a user, or nothing.          *)
Credentials == {PyNone} \cup {PyInt(u) : u \in Users}

NoBody == [shape |-> "absent", fields |-> EmptyDict]

NoRequest == [kind |-> "none", token |-> PyNone, body |-> NoBody]

(* A request as the routing layer hands it to a handler; the body of a     *)
(* contact-admin request is read when post() asks for it.                  *)
Incoming(kind, token) == [kind |-> kind, token |-> token, body |-> NoBody]

NoResponse == [status |-> 0, body |-> EmptyDict]

----------------------------------------------------------------------------
(* Settings collaborator                                                   *)

(* Settings snapshots the settings service can hold; the last one is a     *)
(* result that cannot be serialized.                                       *)
Snapshots ==
    { [t |-> "SettingsDTO", supported_languages |-> <<"en">>],
      [t |-> "SettingsDTO", supported_languages |-> <<"en", "fr">>],
      PyNone }

(* SettingsDTO.to_primitive()                                              *)
to_primitive(dto) == [supportedLanguages |-> dto.supported_languages]

----------------------------------------------------------------------------
(* Logging                                                                 *)

(* current_app.logger.critical(msg)                                        *)
Critical(msg) == [level |-> "CRITICAL", msg |-> msg]

(* What one handler invocation did: the response it returned, the log      *)
(* entries it wrote, the collaborators it invoked, the messages it handed  *)
(* to the mail collaborator and the exceptions raised inside it.           *)
Outcome(resp, entries, invoked, messages, excs) ==
    [response |-> resp, log |-> entries, calls |-> invoked,
     sent |-> messages, raised |-> excs]

----------------------------------------------------------------------------
(* SystemDocsAPI                                                           *)

(* Documents swagger(current_app) can produce: the info section is         *)
(* missing fields, holds empty ones, or holds the generator's defaults.    *)
GeneratedDocs ==
    { [info |-> EmptyDict],
      [info |-> [title |-> "", version |-> ""]],
      [info |-> [title |-> "Cool product name", version |-> "0.0.0"]] }

(* jsonify(d): a 200 response whose body is d.                             *)
jsonify(d) == [status |-> 200, body |-> d]

(* The version is left as the generator produced it.                       *)
DocsKeepGeneratedVersion(swag) ==
    LET info1 == DictSet(swag.info, "title", "Tasking Manager backend API")
        info2 == DictSet(info1, "description", "API endpoints for the backend")
    IN  Outcome(jsonify([swag EXCEPT !.info = info2]), <<>>, <<"swagger">>,
                <<>>, <<>>)

SystemDocsAPI_get(swag) ==
    LET info1 == DictSet(swag.info, "title", "Tasking Manager backend API")
        info2 == DictSet(info1, "description", "API endpoints for the backend")
        info3 == DictSet(info2, "version", "2.0.0")
    IN  Outcome(jsonify([swag EXCEPT !.info = info3]), <<>>, <<"swagger">>,
                <<>>, <<>>)

----------------------------------------------------------------------------
(* SystemHeartbeatAPI                                                      *)

(* The health check asks the settings service before it answers.           *)
HeartbeatViaSettings ==
    IF "settings" \in down
    THEN Outcome([status |-> 500, body |-> [status |-> "unhealthy"]], <<>>,
                 <<"settings">>, <<>>, <<>>)
    ELSE Outcome([status |-> 200, body |-> [status |-> "healthy"]], <<>>,
                 <<"settings">>, <<>>, <<>>)

SystemHeartbeatAPI_get ==
    Outcome([status |-> 200, body |-> [status |-> "healthy"]], <<>>, <<>>,
            <<>>, <<>>)

----------------------------------------------------------------------------
(* SystemLanguagesAPI                                                      *)

LanguagesErrorMsg(e) == <<"Languages GET - unhandled error: ", e>>

(* The error payload carries the exception's text.                         *)
LanguagesErrorResponseLeaky(e) == [status |-> 500, body |-> [Error |-> e]]

LanguagesErrorResponse(e) ==
    [status |-> 500, body |-> [Error |-> "Unable to fetch supported languages"]]

(* The except clause.                                                      *)
LanguagesExcept(e, invoked) ==
    Outcome(LanguagesErrorResponse(e), <<Critical(LanguagesErrorMsg(e))>>,
            invoked, <<>>, <<e>>)

(* The settings are fetched a second time when they are serialized.        *)
LanguagesResultReread(local, current) == current

(* The object `languages.to_primitive()` is called on.                     *)
LanguagesResult(local, current) == local

(* return languages.to_primitive(), 200                                    *)
LanguagesReturn(local, current) ==
    LET dto == LanguagesResult(local, current) IN
    IF dto.t = "NoneType"
    THEN LanguagesExcept("'NoneType' object has no attribute 'to_primitive'",
                         <<>>)
    ELSE Outcome([status |-> 200, body |-> to_primitive(dto)], <<>>, <<>>,
                 <<>>, <<>>)

----------------------------------------------------------------------------
(* SystemContactAdminRestAPI                                               *)

(* The session check on a request's credentials.                           *)
verify_token(token, authDown) ==
    IF authDown THEN "raised"
    ELSE IF token.t = "NoneType" THEN "rejected" ELSE "ok"

(* post() without the login_required decorator.                            *)
login_optional(v) == TRUE

(* @token_auth.login_required: post() runs only for a verified session.    *)
login_required(v) == v = "ok"

(* tm.authenticated_user_id after the session check: the verified user.    *)
authenticated_user(token, v, current) == IF v = "ok" THEN token ELSE current

(* The response of a request the decorators turned away.                   *)
Rejections(v) ==
    IF v = "raised"
    THEN {[status |-> 500, body |-> [message |-> "Internal Server Error"]]}
    ELSE {[status |-> 401, body |-> [Error |-> "Unauthorized"]],
          [status |-> 403, body |-> [Error |-> "Forbidden"]]}

(* request.get_json() or {}: no body reads as an empty object.             *)
get_json_or_empty(body) ==
    CASE body.shape = "absent" ->
            [raised |-> FALSE, value |-> [t |-> "dict", v |-> EmptyDict]]
      [] body.shape = "malformed" ->
            [raised |-> TRUE,
             exc |-> "400 Bad Request: Failed to decode JSON object"]
      [] body.shape = "array" -> [raised |-> FALSE, value |-> [t |-> "list"]]
      [] body.shape = "object" ->
            [raised |-> FALSE, value |-> [t |-> "dict", v |-> body.fields]]

(* request.get_json(): the parsed body, None when there is none, or a      *)
(* BadRequest when it does not parse.                                      *)
get_json(body) ==
    CASE body.shape = "absent" -> [raised |-> FALSE, value |-> PyNone]
      [] body.shape = "malformed" ->
            [raised |-> TRUE,
             exc |-> "400 Bad Request: Failed to decode JSON object"]
      [] body.shape = "array" -> [raised |-> FALSE, value |-> [t |-> "list"]]
      [] body.shape = "object" ->
            [raised |-> FALSE, value |-> [t |-> "dict", v |-> body.fields]]

(* data.get on something that is no dict.                                  *)
AttributeError(x) ==
    IF x.t = "NoneType"
    THEN "'NoneType' object has no attribute 'get'"
    ELSE "'list' object has no attribute 'get'"

(* The template without its content paragraph.                             *)
ContactMessageWithoutContent(data, uid) ==
    << "New contact from ", Str(DictGet(data, "name")),
       " <", Str(DictGet(data, "email")),
       "> (UID: ", Str(uid), ")." >>

(* The message template, filled by str.format().                           *)
ContactMessage(data, uid) ==
    << "New contact from ", Str(DictGet(data, "name")),
       " <", Str(DictGet(data, "email")),
       "> (UID: ", Str(uid),
       ").\n                <p>", Str(DictGet(data, "content")),
       "</p>\n                " >>

(* SMTPService._send_message(to_address, subject, html, text); the         *)
(* address is the one configured as EMAIL_FROM_ADDRESS.                    *)
Mail(message) ==
    [to_address |-> "EMAIL_FROM_ADDRESS", subject |-> "Tasking Manager Contact",
     html_message |-> message, text_message |-> message]

(* A send that raised is tried once more.                                  *)
SendWithRetry(message, mailDown) ==
    IF mailDown THEN <<Mail(message), Mail(message)>> ELSE <<Mail(message)>>

(* The calls of SMTPService._send_message one request makes.               *)
SendAttempts(message, mailDown) == <<Mail(message)>>

ContactSuccess == [status |-> 201, body |-> [Success |-> "Email sent"]]

ContactErrorMsg(e) == <<"Application GET API - unhandled error: ", e>>

ContactErrorResponse(e) ==
    [status |-> 500, body |-> [Error |-> "Unable to fetch application keys"]]

(* The except clause.                                                      *)
ContactExcept(e, attempts) ==
    Outcome(ContactErrorResponse(e), <<Critical(ContactErrorMsg(e))>>,
            [i \in 1..Len(attempts) |-> "mail"], attempts, <<e>>)

(* The body of post(): the try block and its except clause.                *)
SystemContactAdminRestAPI_post(body, uid, mailDown) ==
    LET j == get_json(body) IN
    IF j.raised THEN ContactExcept(j.exc, <<>>)
    ELSE IF j.value.t # "dict"
    THEN ContactExcept(AttributeError(j.value), <<>>)
    ELSE LET message == ContactMessage(j.value.v, uid)
             attempts == SendAttempts(message, mailDown)
         IN  IF mailDown
             THEN ContactExcept("SMTPException: connection refused", attempts)
             ELSE Outcome(ContactSuccess, <<>>,
                          [i \in 1..Len(attempts) |-> "mail"], attempts, <<>>)

Init ==
    /\ request = [r \in Requests |-> NoRequest]
    /\ pc = [r \in Requests |-> "idle"]
    /\ languages = [r \in Requests |-> PyNone]
    /\ response = [r \in Requests |-> NoResponse]
    /\ log = [r \in Requests |-> <<>>]
    /\ calls = [r \in Requests |-> <<>>]
    /\ sent = [r \in Requests |-> <<>>]
    /\ raised = [r \in Requests |-> <<>>]
    /\ verdict = [r \in Requests |-> "none"]
    /\ tm_authenticated_user_id = PyNone
    /\ settings \in Snapshots \ {PyNone}
    /\ down = {}

(* The routing layer hands request r to the handler of its route;          *)
(* requests are numbered in the order they arrive.                         *)
Arrives(r, kind, token) ==
    /\ pc[r] = "idle"
    /\ \A q \in Requests : q < r => pc[q] # "idle"
    /\ request' = [request EXCEPT ![r] = Incoming(kind, token)]

(* A handler invocation ends: its outcome is recorded for request r.       *)
Finish(r, o) ==
    /\ response' = [response EXCEPT ![r] = o.response]
    /\ log' = [log EXCEPT ![r] = @ \o o.log]
    /\ calls' = [calls EXCEPT ![r] = @ \o o.calls]
    /\ sent' = [sent EXCEPT ![r] = @ \o o.sent]
    /\ raised' = [raised EXCEPT ![r] = @ \o o.raised]
    /\ pc' = [pc EXCEPT ![r] = "done"]

Docs(r) ==
    /\ Arrives(r, "docs", PyNone)
    /\ \E swag \in GeneratedDocs : Finish(r, SystemDocsAPI_get(swag))
    /\ UNCHANGED <<languages, verdict, env>>

HealthCheck(r) ==
    /\ Arrives(r, "health-check", PyNone)
    /\ Finish(r, SystemHeartbeatAPI_get)
    /\ UNCHANGED <<languages, verdict, env>>

(* languages = SettingsService.get_settings()                              *)
LanguagesGetSettings(r) ==
    /\ Arrives(r, "languages", PyNone)
    /\ IF "settings" \in down
       THEN /\ Finish(r, LanguagesExcept("settings unavailable", <<"settings">>))
            /\ UNCHANGED languages
       ELSE /\ languages' = [languages EXCEPT ![r] = settings]
            /\ calls' = [calls EXCEPT ![r] = Append(@, "settings")]
            /\ pc' = [pc EXCEPT ![r] = "to_primitive"]
            /\ UNCHANGED <<response, log, sent, raised>>
    /\ UNCHANGED <<verdict, env>>

LanguagesToPrimitive(r) ==
    /\ pc[r] = "to_primitive"
    /\ Finish(r, LanguagesReturn(languages[r], settings))
    /\ UNCHANGED <<request, languages, verdict, env>>

(* The decorators of post(): the session check, then post() itself or a    *)
(* rejection.                                                              *)
Authenticate(r) ==
    \E token \in Credentials :
    /\ Arrives(r, "contact-admin", token)
    /\ LET v == verify_token(token, "auth" \in down) IN
        /\ verdict' = [verdict EXCEPT ![r] = v]
        /\ tm_authenticated_user_id' =
              authenticated_user(token, v, tm_authenticated_user_id)
        /\ IF login_required(v)
           THEN /\ pc' = [pc EXCEPT ![r] = "post"]
                /\ calls' = [calls EXCEPT ![r] = Append(@, "auth")]
                /\ UNCHANGED <<response, log, sent, raised>>
           ELSE \E resp \in Rejections(v) :
                    Finish(r, Outcome(resp, <<>>, <<"auth">>, <<>>, <<>>))
    /\ UNCHANGED <<languages, settings, down>>

Post(r) ==
    /\ pc[r] = "post"
    /\ \E b \in Bodies :
        /\ request' = [request EXCEPT ![r].body = b]
        /\ Finish(r, SystemContactAdminRestAPI_post(
                        b, tm_authenticated_user_id, "mail" \in down))
    /\ UNCHANGED <<languages, verdict, env>>

(* The settings service replaces the snapshot it holds.                    *)
SettingsRefresh ==
    /\ \E s \in Snapshots \ {settings} : settings' = s
    /\ UNCHANGED <<request, pc, languages, response, log, calls, sent, raised,
                   verdict, tm_authenticated_user_id, down>>

CollaboratorFails(c) ==
    /\ c \notin down
    /\ down' = down \cup {c}
    /\ UNCHANGED <<request, pc, languages, response, log, calls, sent, raised,
                   verdict, tm_authenticated_user_id, settings>>

CollaboratorRecovers(c) ==
    /\ c \in down
    /\ down' = down \ {c}
    /\ UNCHANGED <<request, pc, languages, response, log, calls, sent, raised,
                   verdict, tm_authenticated_user_id, settings>>

Next ==
    \/ \E r \in Requests :
        \/ Docs(r)
        \/ HealthCheck(r)
        \/ LanguagesGetSettings(r)
        \/ LanguagesToPrimitive(r)
        \/ Authenticate(r)
        \/ Post(r)
    \/ SettingsRefresh
    \/ \E c \in Collaborators : CollaboratorFails(c) \/ CollaboratorRecovers(c)

Spec == Init /\ [][Next]_vars

----------------------------------------------------------------------------
(* Properties                                                              *)

Handled(r, kind) == pc[r] = "done" /\ request[r].kind = kind

(* A contact-admin request whose session check passed and whose post()     *)
(* has returned.                                                           *)
Posted(r) == Handled(r, "contact-admin") /\ verdict[r] = "ok"

(* The pieces of the composed message the mail collaborator was given.     *)
MessageOf(r) == sent[r][1].html_message

(* C1: a contact-admin request the session check rejects never reaches the *)
(* mail collaborator: post() does not run for it, no message is sent for   *)
(* it, and its response status is 401 or 403.                              *)
C1_UnauthenticatedNeverMails ==
    \A r \in Requests :
        verdict[r] = "rejected" =>
            /\ pc[r] = "done"
            /\ sent[r] = <<>>
            /\ \A i \in 1..Len(calls[r]) : calls[r][i] # "mail"
            /\ response[r].status \in {401, 403}

C1_Witness ==
    \E r \in Requests :
        /\ Handled(r, "contact-admin")
        /\ verdict[r] = "rejected"
        /\ response[r].status = 401
        /\ "mail" \notin down

(* C2: with a valid session and an object body carrying name, email and    *)
(* content, when nothing raises, the mail collaborator is invoked exactly  *)
(* once with a message containing the three values, and the response is    *)
(* 201 {"Success": "Email sent"}.                                          *)
C2_FullBodySendsOnce ==
    \A r \in Requests :
        ( /\ Posted(r)
          /\ request[r].body.shape = "object"
          /\ {"name", "email", "content"} \subseteq DOMAIN request[r].body.fields
          /\ raised[r] = <<>> ) =>
            /\ Len(sent[r]) = 1
            /\ \A k \in {"name", "email", "content"} :
                    Contains(MessageOf(r), request[r].body.fields[k])
            /\ response[r] = [status |-> 201, body |-> [Success |-> "Email sent"]]

C2_Witness ==
    \E r \in Requests :
        /\ Posted(r)
        /\ request[r].body.fields =
              [name |-> "Alice", email |-> "a@x.com", content |-> "Hi"]
        /\ response[r].status = 201
        /\ Contains(MessageOf(r), "Hi")

(* C3: when a step of post() raises, the handler writes exactly one log    *)
(* entry, at critical severity, returns 500 with the fixed payload, which  *)
(* does not carry the exception's text, and has tried the mail             *)
(* collaborator at most once.                                              *)
C3_RaiseIsLoggedOnceAndHidden ==
    \A r \in Requests :
        (Posted(r) /\ raised[r] # <<>>) =>
            /\ Len(log[r]) = 1
            /\ log[r][1].level = "CRITICAL"
            /\ response[r].status = 500
            /\ response[r].body = [Error |-> "Unable to fetch application keys"]
            /\ \A i \in 1..Len(raised[r]) : response[r].body.Error # raised[r][i]
            /\ Len(sent[r]) <= 1

C3_Witness ==
    \E r \in Requests :
        /\ Posted(r)
        /\ raised[r] = <<"SMTPException: connection refused">>
        /\ Len(sent[r]) = 1
        /\ response[r].status = 500

(* C4 as stated, read with C2's proviso that nothing raises: with a valid   *)
(* session and an object body without content, one message is sent, the    *)
(* response is 201 and the content paragraph of the message is empty.      *)
C4_MissingContentIsOmitted ==
    \A r \in Requests :
        ( /\ Posted(r)
          /\ request[r].body.shape = "object"
          /\ "content" \notin DOMAIN request[r].body.fields
          /\ raised[r] = <<>> ) =>
            /\ Len(sent[r]) = 1
            /\ response[r].status = 201
            /\ MessageOf(r)[8] = ""

(* C4, amended: with a valid session and an object body without content,   *)
(* when nothing raises, the request is not rejected: one message is sent,  *)
(* the response is 201, and the content paragraph of the message reads     *)
(* None.                                                                   *)
C4_MissingContentReadsNone ==
    \A r \in Requests :
        ( /\ Posted(r)
          /\ request[r].body.shape = "object"
          /\ "content" \notin DOMAIN request[r].body.fields
          /\ raised[r] = <<>> ) =>
            /\ Len(sent[r]) = 1
            /\ response[r].status = 201
            /\ MessageOf(r)[8] = "None"

C4_Witness ==
    \E r \in Requests :
        /\ Posted(r)
        /\ request[r].body.fields = [name |-> "Alice", email |-> "a@x.com"]
        /\ response[r].status = 201
        /\ Len(sent[r]) = 1

(* C5: when get_settings or the serialization of its result raises, the    *)
(* languages handler writes one log entry, at critical severity, and       *)
(* returns 500 {"Error": "Unable to fetch supported languages"}, which     *)
(* does not carry the exception's text.                                    *)
C5_LanguagesFailureIsGeneric ==
    \A r \in Requests :
        (Handled(r, "languages") /\ raised[r] # <<>>) =>
            /\ Len(log[r]) = 1
            /\ log[r][1].level = "CRITICAL"
            /\ response[r] =
                  [status |-> 500,
                   body |-> [Error |-> "Unable to fetch supported languages"]]
            /\ \A i \in 1..Len(raised[r]) : response[r].body.Error # raised[r][i]

C5_Witness ==
    \E r \in Requests :
        /\ Handled(r, "languages")
        /\ raised[r] = <<"'NoneType' object has no attribute 'to_primitive'">>
        /\ response[r].status = 500

(* A step of the languages handler for request r.                          *)
LanguagesStep(r) ==
    \/ pc[r] = "idle" /\ pc'[r] # "idle" /\ request'[r].kind = "languages"
    \/ pc[r] = "to_primitive" /\ pc'[r] = "done"

(* C6: when nothing raises, the languages handler returns 200 with the     *)
(* serialization of the snapshot get_settings returned to that call and    *)
(* writes no log entry; no step of the handler changes the snapshot the    *)
(* settings service holds.                                                 *)
C6_LanguagesReturnsItsSnapshot ==
    /\ [](\A r \in Requests :
            (Handled(r, "languages") /\ raised[r] = <<>>) =>
                /\ response[r].status = 200
                /\ languages[r] \in Snapshots \ {PyNone}
                /\ response[r].body =
                      [supportedLanguages |-> languages[r].supported_languages]
                /\ log[r] = <<>>)
    /\ [][\A r \in Requests : LanguagesStep(r) => settings' = settings]_vars

C6_Witness ==
    \E r \in Requests :
        /\ Handled(r, "languages")
        /\ response[r].status = 200
        /\ response[r].body = [supportedLanguages |-> <<"en", "fr">>]
        /\ settings # languages[r]

(* C7: the health check returns 200 {"status": "healthy"} whatever the     *)
(* state of the collaborators, and invokes none of them.                   *)
C7_HealthCheckIsUnconditional ==
    \A r \in Requests :
        Handled(r, "health-check") =>
            /\ response[r] = [status |-> 200, body |-> [status |-> "healthy"]]
            /\ calls[r] = <<>>
            /\ log[r] = <<>>

C7_Witness ==
    \E r \in Requests :
        /\ Handled(r, "health-check")
        /\ response[r].status = 200
        /\ down = Collaborators
        /\ \E q \in Requests : q < r /\ raised[q] # <<>>

(* C8: every document the docs handler returns has a title, a description  *)
(* and a version, none of them empty.                                      *)
C8_DocsInfoIsFilled ==
    \A r \in Requests :
        Handled(r, "docs") =>
            /\ response[r].status = 200
            /\ {"title", "description", "version"}
                   \subseteq DOMAIN response[r].body.info
            /\ \A k \in {"title", "description", "version"} :
                   response[r].body.info[k] # ""

C8_Witness ==
    \E r \in Requests :
        /\ Handled(r, "docs")
        /\ response[r].body.info.version = "2.0.0"

(* C9: the user identifier in each message sent is that of the session     *)
(* that authenticated the same request.                                    *)
C9_MessageCarriesOwnUser ==
    \A r \in Requests :
        (Posted(r) /\ sent[r] # <<>>) =>
            MessageOf(r)[6] = Str(request[r].token)

=============================================================================
